---- MODULE Spec2Model ----
(***************************************************************************)
(* Aqualink-Typescript: node pool (Node), session registry (Aqua) and the  *)
(* per-guild playback state machine (Player), as a state machine.          *)
(*                                                                         *)
(* The JavaScript heap is modelled by four variables (nodes, nodeMap,      *)
(* objs, players).  A new Player takes a slot of objs that the registry    *)
(* does not refer to, so the heap remembers the most recently replaced or  *)
(* removed Player objects next to the registered ones.                     *)
(* Every method of the source is an operator from a "world" record (the    *)
(* heap plus the sequence of notifications / commands produced so far and  *)
(* the exception, if any, that ended the call) to the world after the      *)
(* call.  An action runs one externally triggered handler to completion,   *)
(* commits the resulting heap and records in `last` what was called, the   *)
(* heap before the call, and what the call emitted and threw.              *)
(***************************************************************************)
EXTENDS Integers, Sequences, FiniteSets, TLC

VARIABLES nodes,     \* Node objects: [NodeIds -> record]
          nodeMap,   \* Aqua.nodeMap, in insertion order: Seq(NodeIds)
          objs,      \* Player objects: [ObjIds -> record]
          players,   \* Aqua.players: [Guilds -> ObjIds \cup {0}], 0 = no entry
          last,      \* the last handler run: its name, arguments, pre-heap, outputs
          fatal,     \* per node, the "Max reconnection attempts reached" errors emitted
          inserted,  \* the number of addToPreviousTrack calls made so far
          now        \* Date.now()

vars == <<nodes, nodeMap, objs, players, last, fatal, inserted, now>>

-----------------------------------------------------------------------------
(* Bounds of the model *)

MaxTries == 2     \* reconnectTries is configured in 1..MaxTries
MaxCalls == 1     \* Rest.calls is counted up to this value
MaxQueue == 2     \* pending tracks a caller enqueues
MaxInserts == 52  \* calls of addToPreviousTrack

(* Program constants *)

MAX_SAFE_HI == 90071992   \* Number.MAX_SAFE_INTEGER = 9007199254740991,
MAX_SAFE_LO == 54740991   \* written as MAX_SAFE_HI * 10^8 + MAX_SAFE_LO
HISTORY_CAP == 50         \* Player.addToPreviousTrack
Limb        == 100000000  \* base of the two-limb numbers below (10^8)

DEFAULT_TRIES == 3        \* options?.reconnectTries ?? 3
UPDATE_THROTTLE == 1000   \* Connection.updateThrottle

\* Date.now() when Aqua.init() returns: some time at least updateThrottle
\* after the epoch
StartTime == 5000

NodeIds == {1, 2}
Guilds  == {"g1", "g2"}
\* one slot for every registry entry and one for a Player being replaced
ObjIds  == 1..(Cardinality(Guilds) + 1)
Tracks  == {"A", "B"}
NoTrack == "none"          \* null / undefined track
NoChan  == "none"          \* undefined voiceChannel
Chans   == {"vc1"}
NoRegion == "none"         \* createConnection without options.region

-----------------------------------------------------------------------------
(* Small sequence helpers *)

RECURSIVE SelectSeqIds(_, _)
SelectSeqIds(s, keep) ==
    IF s = <<>> THEN <<>>
    ELSE IF Head(s) \in keep THEN <<Head(s)>> \o SelectSeqIds(Tail(s), keep)
         ELSE SelectSeqIds(Tail(s), keep)

SeqRange(s) == {s[i] : i \in 1..Len(s)}

-----------------------------------------------------------------------------
(* Node: construction *)

\* Node.#createStats: the zeroed health snapshot.  systemLoad is kept in
\* hundredths (loadK = 100 * systemLoad).
CreateStats == [players |-> 0, cores |-> 0, loadK |-> 0, nulled |-> 0, deficit |-> 0]

\* `name || host` of the n-th configured node: its key in aqua.nodeMap
NodeName(n) == IF n = 1 THEN "main" ELSE "backup"

\* The `regions` entry of each node's configuration, stored verbatim by the
\* Node constructor.
NodeRegions(n) == IF n = 1 THEN {"us"} ELSE {"EU"}

\* new Node(aqua, config, options): the fields the constructor sets.
NewNode(n, tries) ==
    [name |-> NodeName(n), connected |-> FALSE, ws |-> "null", attempted |-> 0,
     timers |-> {}, reconnectTries |-> tries, calls |-> 0,
     regions |-> NodeRegions(n), stats |-> CreateStats]

-----------------------------------------------------------------------------
(* Player: construction *)

\* A slot of objs that holds no constructed Player yet.
NoObj ==
    [guildId |-> "", voiceChannel |-> NoChan, connected |-> FALSE,
     playing |-> FALSE, paused |-> FALSE, loop |-> "none", queue |-> <<>>,
     current |-> NoTrack, previousTracks |-> <<>>, position |-> 0, nodes |-> 0,
     listening |-> FALSE, linked |-> FALSE,
     sessionId |-> "", endpoint |-> "", token |-> "", region |-> "",
     connChannel |-> NoChan, lastUpdateTime |-> 0,
     nowPlayingMessage |-> FALSE, ending |-> <<>>]

\* new Player(aqua, node, options): the fields the constructor sets.
\* listening: the "playerUpdate" / "event" listeners are attached;
\* linked: the Connection made by the constructor still references the player;
\* sessionId, endpoint, token (voice), region, connChannel (voiceChannel) and
\* lastUpdateTime are the fields of that Connection, "" standing for null.
NewPlayer(g, n, vc) ==
    [NoObj EXCEPT !.guildId = g, !.voiceChannel = vc, !.nodes = n,
                  !.listening = TRUE, !.linked = TRUE, !.connChannel = vc]
\* nowPlayingMessage: caller code has assigned a message to the public field;
\* ending: the trackEnd calls suspended at `await nowPlayingMessage.delete()`,
\* each with the track and reason it was called with and, for reference, the
\* Player as it was when the call began (snap).

-----------------------------------------------------------------------------
(* The world a method runs in *)

World ==
    [nodes |-> nodes, nodeMap |-> nodeMap, objs |-> objs, players |-> players,
     out |-> <<>>, threw |-> "", now |-> now]

\* aqua.emit(...), aqua.send(...) and rest.updatePlayer(...): appended to the
\* outputs of the running handler.
Emit(w, kind, id, data) ==
    [w EXCEPT !.out = Append(@, [k |-> kind, id |-> id, d |-> data])]

\* throw new Error(msg) out of the running call.
Throw(w, msg) == [w EXCEPT !.threw = msg]

Heap(w) == [nodes |-> w.nodes, nodeMap |-> w.nodeMap, objs |-> w.objs,
            players |-> w.players]

\* the number of nodeError notifications of #reconnect for node n in out
CountFatal(out, n) ==
    Cardinality({i \in 1..Len(out) :
                    out[i].k = "nodeError" /\ out[i].id = n /\ out[i].d = "max"})

\* The Player objects of w that the registry refers to, or referred to when
\* the running call began; every handler reaches a Player through the
\* registry, so the other slots are garbage and are cleared.
Reachable(w) ==
    [o \in ObjIds |->
        IF \E g \in Guilds : w.players[g] = o \/ players[g] = o
        THEN w.objs[o] ELSE NoObj]

\* The handler `op` with arguments `args` ran from the current state to w.
Commit(w, op, args) ==
    /\ nodes'   = w.nodes
    /\ nodeMap' = w.nodeMap
    /\ objs'    = Reachable(w)
    /\ players' = w.players
    /\ fatal'   = [n \in NodeIds |-> fatal[n] + CountFatal(w.out, n)]
    /\ inserted' = inserted + (IF op = "addToPreviousTrack" THEN 1 ELSE 0)
    /\ now'     = now
    /\ last'    = [op |-> op, args |-> args, pre |-> Heap(World),
                   out |-> w.out, threw |-> w.threw]

-----------------------------------------------------------------------------
(* Player methods *)

\* Player.updatePlayer(data): a PATCH for this guild on the bound node's Rest.
\* The call is asynchronous: nothing is thrown back to the caller.
UpdatePlayer(w, o, data) == Emit(w, "patch", o, data)

\* Player.send(data): aqua.send({op: 4, d: data}), the voice-gateway command.
Send(w, o, channel) == Emit(w, "send", o, channel)

\* Player.destroy()
PlayerDestroy(w, o) ==
    IF ~w.objs[o].connected THEN w
    ELSE LET w1 == UpdatePlayer(w, o, "track:null")
             w2 == [w1 EXCEPT !.objs[o] =
                       [@ EXCEPT !.queue = <<>>, !.current = NoTrack,
                                 !.previousTracks = <<>>, !.playing = FALSE,
                                 !.position = 0, !.connected = FALSE,
                                 !.listening = FALSE]]
         IN Send(w2, o, "null")

\* Player.connect(options)
PlayerConnect(w, o, vc) ==
    IF w.objs[o].connected THEN Throw(w, "Player is already connected.")
    ELSE LET w1 == Send(w, o, vc)
         IN Emit([w1 EXCEPT !.objs[o].connected = TRUE], "debug", o, "connected")

\* Player.setVoiceChannel(channel); "" is a missing or empty channel.
PlayerSetVoiceChannel(w, o, channel) ==
    IF channel = "" THEN Throw(w, "Channel must be a non-empty string.")
    ELSE IF w.objs[o].connected /\ channel = w.objs[o].voiceChannel
    THEN Throw(w, "Player already connected to channel.")
    ELSE PlayerConnect([w EXCEPT !.objs[o].voiceChannel = channel], o, channel)

\* Variant of Player.play() that reads queue[0] where the source shifts it out.
PlayerPlayPeek(w, o) ==
    LET p == w.objs[o] IN
    IF ~p.connected THEN Throw(w, "Player must be connected first.")
    ELSE IF p.queue = <<>> THEN w
    ELSE IF Head(p.queue) = NoTrack THEN Throw(w, "TypeError")
    ELSE UpdatePlayer(
           Emit([w EXCEPT !.objs[o].current = Head(p.queue),
                          !.objs[o].playing = TRUE,
                          !.objs[o].position = 0],
                "debug", o, "playing"),
           o, Head(p.queue))

\* a queue entry without playable token (its `track` field is empty), and the
\* pending Promise that the async Track.resolve returns for it
Unresolved == "U"
Pending == "promise"

\* Player.play().  A null queue entry makes `track.track` a TypeError, raised
\* after the entry has been shifted out of the queue.  For an entry without
\* token, current becomes what track.resolve(aqua) returns, which is not
\* awaited, and `this.current?.track` is then undefined.
PlayerPlay(w, o) ==
    LET p == w.objs[o] IN
    IF ~p.connected THEN Throw(w, "Player must be connected first.")
    ELSE IF p.queue = <<>> THEN w
    ELSE LET track == Head(p.queue)
             w1 == [w EXCEPT !.objs[o].queue = Tail(p.queue)]
         IN IF track = NoTrack THEN Throw(w1, "TypeError")
            ELSE UpdatePlayer(
                   Emit([w1 EXCEPT !.objs[o].current =
                                       IF track = Unresolved THEN Pending ELSE track,
                                   !.objs[o].playing = TRUE,
                                   !.objs[o].position = 0],
                        "debug", o, "playing"),
                   o, IF track = Unresolved THEN "undefined" ELSE track)

\* Player.stop()
PlayerStop(w, o) ==
    IF ~w.objs[o].playing THEN w
    ELSE LET w1 == UpdatePlayer(w, o, "track:null")
         IN [w1 EXCEPT !.objs[o].playing = FALSE, !.objs[o].position = 0]

\* Player.skip()
PlayerSkip(w, o) ==
    LET w1 == PlayerStop(w, o)
    IN IF w1.objs[o].playing THEN PlayerPlay(w1, o) ELSE w1

\* Player.pause(paused)
PlayerPause(w, o, paused) ==
    UpdatePlayer([w EXCEPT !.objs[o].paused = paused], o,
                 IF paused THEN "paused:true" ELSE "paused:false")

LoopModes == {"none", "track", "queue"}

\* Player.setLoop(mode)
PlayerSetLoop(w, o, mode) ==
    IF mode \notin LoopModes
    THEN Throw(w, "Loop mode must be 'none', 'track', or 'queue'.")
    ELSE UpdatePlayer([w EXCEPT !.objs[o].loop = mode], o, mode)

\* Player.cleanup(): no await inside, so the body runs with its caller.
PlayerCleanup(w, o) ==
    LET p == w.objs[o] IN
    IF ~p.playing /\ ~p.paused /\ p.queue = <<>> THEN PlayerDestroy(w, o) ELSE w

\* Variant of Player.addToPreviousTrack that evicts only above 50 entries.
AddToPreviousTrackLate(w, o, track) ==
    LET h  == w.objs[o].previousTracks
        h1 == IF Len(h) > HISTORY_CAP THEN SubSeq(h, 1, Len(h) - 1) ELSE h
    IN [w EXCEPT !.objs[o].previousTracks = <<track>> \o h1]

\* Player.addToPreviousTrack(track)
AddToPreviousTrack(w, o, track) ==
    LET h  == w.objs[o].previousTracks
        h1 == IF Len(h) >= HISTORY_CAP THEN SubSeq(h, 1, Len(h) - 1) ELSE h
    IN [w EXCEPT !.objs[o].previousTracks = <<track>> \o h1]

\* payload.reason?.replace("_", "").toLowerCase() on the end reasons of the
\* engine protocol (v4 camelCase, v3 upper case).
EndReasons == {"finished", "loadFailed", "LOAD_FAILED", "cleanup"}
NormReason(reason) ==
    CASE reason = "finished"    -> "finished"
      [] reason = "loadFailed"  -> "loadfailed"
      [] reason = "LOAD_FAILED" -> "loadfailed"
      [] reason = "cleanup"     -> "cleanup"

\* Variant of the switch in which "track" mode pushes like "queue" mode.
LoopPolicyTrackAtTail(w, o, track) ==
    CASE w.objs[o].loop = "track" ->
           [Emit(w, "trackRepeat", o, track)
              EXCEPT !.objs[o].queue = Append(@, track)]
      [] w.objs[o].loop = "queue" ->
           [Emit(w, "queueRepeat", o, track)
              EXCEPT !.objs[o].queue = Append(@, track)]
      [] OTHER -> w

\* Variant of the switch in which "queue" mode unshifts like "track" mode.
LoopPolicyQueueAtHead(w, o, track) ==
    CASE w.objs[o].loop = "track" ->
           [Emit(w, "trackRepeat", o, track)
              EXCEPT !.objs[o].queue = <<track>> \o @]
      [] w.objs[o].loop = "queue" ->
           [Emit(w, "queueRepeat", o, track)
              EXCEPT !.objs[o].queue = <<track>> \o @]
      [] OTHER -> w

\* The switch on this.loop in Player.trackEnd.
LoopPolicy(w, o, track) ==
    CASE w.objs[o].loop = "track" ->
           [Emit(w, "trackRepeat", o, track)
              EXCEPT !.objs[o].queue = <<track>> \o @]
      [] w.objs[o].loop = "queue" ->
           [Emit(w, "queueRepeat", o, track)
              EXCEPT !.objs[o].queue = Append(@, track)]
      [] OTHER -> w

\* Player.trackEnd(player, track, payload) with no nowPlayingMessage to delete
\* (the field is null unless caller code assigns it).  An exception inside the
\* async function rejects its promise: the mutations made before it stay.
PlayerTrackEnd(w, o, track, reason) ==
    LET r    == NormReason(reason)
        skip == r \in {"loadfailed", "cleanup"}
    IN IF skip /\ w.objs[o].queue = <<>> THEN Emit(w, "queueEnd", o, "")
       ELSE LET w1 == IF skip THEN PlayerPlay(w, o) ELSE w
            IN IF w1.threw # "" THEN w1
               ELSE LET w2 == LoopPolicy(w1, o, track)
                        w3 == IF w2.objs[o].queue = <<>>
                              THEN PlayerCleanup(
                                     Emit([w2 EXCEPT !.objs[o].playing = FALSE],
                                          "queueEnd", o, ""), o)
                              ELSE w2
                    IN PlayerPlay(w3, o)

\* Player.trackEnd(player, track, payload) with a nowPlayingMessage to delete
\* (shouldDeleteMessage defaults to true): the call suspends at the await.
PlayerTrackEndAwait(w, o, track, reason) ==
    [w EXCEPT !.objs[o].ending =
        Append(@, [track |-> track, reason |-> reason, snap |-> w.objs[o]])]

\* the continuation of the suspended trackEnd: the finally block, then the
\* rest of the function
PlayerTrackEndResume(w, o) ==
    LET e == Head(w.objs[o].ending)
    IN PlayerTrackEnd([w EXCEPT !.objs[o].nowPlayingMessage = FALSE,
                                !.objs[o].ending = Tail(@)],
                      o, e.track, e.reason)

\* Player.trackStart / Player.trackChange
PlayerTrackStart(w, o, track, name) ==
    Emit([w EXCEPT !.objs[o].playing = TRUE, !.objs[o].paused = FALSE],
         name, o, track)

\* Player.trackError / Player.trackStuck
PlayerTrackError(w, o, track, name) == PlayerStop(Emit(w, name, o, track), o)

\* Player.onPlayerUpdate(packet) with a packet that carries a state.
OnPlayerUpdate(w, o, connected, position) ==
    Emit([w EXCEPT !.objs[o].connected = connected, !.objs[o].position = position],
         "playerUpdate", o, "")

\* Connection.cleanup(), reached from Connection.setStateUpdate when the
\* update carries no channel id or no session id.
ConnectionCleanup(w, o) ==
    LET w1 == IF ~w.objs[o].linked THEN w
              ELSE Emit(PlayerDestroy(Emit(w, "playerLeave", o, ""), o),
                        "playerDestroy", o, "")
    IN [w1 EXCEPT !.objs[o] =
           [@ EXCEPT !.linked = FALSE, !.sessionId = "", !.endpoint = "",
                     !.token = "", !.region = "", !.connChannel = NoChan]]

\* the channel id and the session id of a complete VOICE_STATE_UPDATE
StateChannel == "vc1"
StateSession == "s1"

\* Connection.setStateUpdate(data)
SetStateUpdate(w, o, hasChannel, hasSession) ==
    IF ~hasChannel \/ ~hasSession THEN ConnectionCleanup(w, o)
    ELSE LET w1 == IF w.objs[o].connChannel # StateChannel /\ w.objs[o].linked
                   THEN Emit(w, "playerMove", o, StateChannel) ELSE w
         IN [w1 EXCEPT !.objs[o].connChannel = StateChannel,
                       !.objs[o].sessionId = StateSession]

\* Variant of Connection.updatePlayerVoiceData without the throttle test.
UpdatePlayerVoiceDataUnthrottled(w, o) ==
    LET w1 == [w EXCEPT !.objs[o].lastUpdateTime = w.now]
    IN IF w.objs[o].linked THEN Emit(w1, "voice", o, w.objs[o].sessionId) ELSE w1

\* Connection.updatePlayerVoiceData(): rest.updatePlayer({guildId, data:
\* {voice, volume}}) on the bound node, the output "voice" carrying
\* voice.sessionId.  Without player (after cleanup) nothing is sent.
UpdatePlayerVoiceData(w, o) ==
    IF w.now - w.objs[o].lastUpdateTime >= UPDATE_THROTTLE
    THEN LET w1 == [w EXCEPT !.objs[o].lastUpdateTime = w.now]
         IN IF w.objs[o].linked THEN Emit(w1, "voice", o, w.objs[o].sessionId)
            ELSE w1
    ELSE w

\* the endpoints of VOICE_SERVER_UPDATE payloads and
\* endpoint.split('.')[0].replace(/[0-9]/g, "") on them
Endpoints == {"us1.discord.gg", "us2.discord.gg"}
Tokens == {"t1", "t2"}
RegionOf(endpoint) == "us"

\* Connection.updateRegion(newRegion, endpoint, token)
UpdateRegion(w, o, newRegion, endpoint, token) ==
    LET w1 == [w EXCEPT !.objs[o].region = newRegion,
                        !.objs[o].endpoint = endpoint, !.objs[o].token = token]
    IN IF w.objs[o].linked THEN Emit(w1, "debug", o, newRegion) ELSE w1

\* Connection.setServerUpdate({endpoint, token}); endpoint "" is a payload
\* without endpoint.
SetServerUpdate(w, o, endpoint, token) ==
    IF endpoint = ""
    THEN Throw(w, "Missing 'endpoint' property in VOICE_SERVER_UPDATE")
    ELSE UpdatePlayerVoiceData(
           IF w.objs[o].region # RegionOf(endpoint)
           THEN UpdateRegion(w, o, RegionOf(endpoint), endpoint, token) ELSE w, o)

-----------------------------------------------------------------------------
(* Node methods *)

\* Node.#cleanup(): drop the listeners of the current channel and terminate it.
NodeCleanup(w, n) == [w EXCEPT !.nodes[n].ws = "null"]

\* `player.node` as read by Node.destroy.  Player stores its node in the field
\* `nodes`; it has no property `node`, so the read is undefined for every
\* player (0 here, which is no node).
PlayerNodeProp(p) == 0

RECURSIVE DestroyPlayers(_, _)
\* the loop body of Node.destroy over the given registry entries
DestroyPlayers(w, gs) ==
    IF gs = {} THEN w
    ELSE LET g == CHOOSE x \in gs : TRUE
         IN DestroyPlayers(PlayerDestroy(w, w.players[g]), gs \ {g})

\* Node.destroy(clean).  The clean variant calls this.aqua.nodes.delete, and
\* aqua.nodes is the configuration array, which has no delete: a TypeError.
NodeDestroy(w, n, clean) ==
    IF clean THEN Throw(Emit(w, "nodeDestroy", n, "clean"), "TypeError")
    ELSE LET mine == {g \in Guilds : /\ w.players[g] # 0
                                     /\ PlayerNodeProp(w.objs[w.players[g]]) = n}
             w1 == IF w.nodes[n].connected THEN DestroyPlayers(w, mine) ELSE w
             w2 == NodeCleanup(w1, n)
             w3 == [w2 EXCEPT !.nodes[n].connected = FALSE,
                              !.nodes[n].stats = CreateStats,
                              !.nodeMap = SelectSeqIds(@,
                                  {m \in NodeIds : w.nodes[m].name # w.nodes[n].name})]
         IN Emit(w3, "nodeDestroy", n, "")

\* reconnectTimeout, left at its default, and the delay of the timer that
\* Node.#reconnect sets at attempt k: reconnectTimeout * #reconnectAttempted.
\* A pending timer is kept in `timers` as the attempt k that set it.
RECONNECT_TIMEOUT == 2000
RetryDelay(k) == RECONNECT_TIMEOUT * k

\* Variant of Node.#reconnect() whose timer has the delay of the first attempt.
NodeReconnectFixedDelay(w, n) ==
    LET a  == w.nodes[n].attempted + 1
        w1 == [w EXCEPT !.nodes[n].attempted = a]
    IN IF a >= w.nodes[n].reconnectTries
       THEN NodeDestroy(Emit(w1, "nodeError", n, "max"), n, FALSE)
       ELSE [w1 EXCEPT !.nodes[n].timers = @ \cup {1}]

\* Variant of Node.#reconnect() that counts every attempt twice.
NodeReconnectDouble(w, n) ==
    LET a  == w.nodes[n].attempted + 2
        w1 == [w EXCEPT !.nodes[n].attempted = a]
    IN IF a >= w.nodes[n].reconnectTries
       THEN NodeDestroy(Emit(w1, "nodeError", n, "max"), n, FALSE)
       ELSE [w1 EXCEPT !.nodes[n].timers = @ \cup {a}]

\* Variant of Node.#reconnect() that compares with `>` where the source has `>=`.
NodeReconnectOneMore(w, n) ==
    LET a  == w.nodes[n].attempted + 1
        w1 == [w EXCEPT !.nodes[n].attempted = a]
    IN IF a > w.nodes[n].reconnectTries
       THEN NodeDestroy(Emit(w1, "nodeError", n, "max"), n, FALSE)
       ELSE [w1 EXCEPT !.nodes[n].timers = @ \cup {a}]

\* Variant of Node.#reconnect() that destroys the node without emitting nodeError.
NodeReconnectSilent(w, n) ==
    LET a  == w.nodes[n].attempted + 1
        w1 == [w EXCEPT !.nodes[n].attempted = a]
    IN IF a >= w.nodes[n].reconnectTries
       THEN NodeDestroy(w1, n, FALSE)
       ELSE [w1 EXCEPT !.nodes[n].timers = @ \cup {a}]

\* Node.#reconnect()
NodeReconnect(w, n) ==
    LET a  == w.nodes[n].attempted + 1
        w1 == [w EXCEPT !.nodes[n].attempted = a]
    IN IF a >= w.nodes[n].reconnectTries
       THEN NodeDestroy(Emit(w1, "nodeError", n, "max"), n, FALSE)
       ELSE [w1 EXCEPT !.nodes[n].timers = @ \cup {a}]

\* Node.connect(); ctorOk = FALSE is `new WebSocket(...)` throwing.
NodeConnect(w, n, ctorOk) ==
    LET w1 == NodeCleanup(w, n)
    IN IF ctorOk
       THEN Emit([w1 EXCEPT !.nodes[n].ws = "connecting"], "debug", n, "connecting")
       ELSE NodeReconnect(Emit(w1, "debug", n, "connection failed"), n)

\* Node.#onOpen(), up to its first await.
NodeOnOpen(w, n) ==
    Emit([w EXCEPT !.nodes[n].connected = TRUE, !.nodes[n].ws = "open"],
         "debug", n, "connected")

\* Node.#onError(error)
NodeOnError(w, n) == Emit(w, "nodeError", n, "ws")

\* Node.#onClose(code, reason)
NodeOnClose(w, n) ==
    NodeReconnect(
      Emit([w EXCEPT !.nodes[n].connected = FALSE, !.nodes[n].ws = "closed"],
           "nodeDisconnect", n, ""), n)

\* a health statistic the payload does not carry
Missing == -1

\* Node.#updateStats(payload) with #updateCpuStats / #updateFrameStats: every
\* missing number becomes 0 (`?? 0`).
UpdateStats(w, n, payload) ==
    LET Num(x) == IF x = Missing THEN 0 ELSE x
    IN [w EXCEPT !.nodes[n].stats =
           [players |-> Num(payload.players), cores |-> Num(payload.cores),
            loadK |-> Num(payload.loadK), nulled |-> Num(payload.nulled),
            deficit |-> Num(payload.deficit)]]

\* Natural numbers beyond 2^31, as <<hi, lo>> = hi * Limb + lo with lo < Limb.
Big(x) == <<x \div Limb, x % Limb>>
BigAdd(a, b) == <<a[1] + b[1] + ((a[2] + b[2]) \div Limb), (a[2] + b[2]) % Limb>>
BigLess(a, b) == a[1] < b[1] \/ (a[1] = b[1] /\ a[2] < b[2])

MAX_SAFE_INTEGER == <<MAX_SAFE_HI, MAX_SAFE_LO>>

\* Math.round(Math.pow(1.05, 100 * systemLoad) * 10 - 10) at the loads the
\* payloads below carry: 104.67 at systemLoad 0.5, 1.1076e16 at 7.1.
PowTerm(loadK) ==
    CASE loadK = 50  -> Big(105)
      [] loadK = 710 -> <<110764945, 88461150>>

\* get Node.penalties
Penalties(w, n) ==
    LET st == w.nodes[n].stats
        p1 == Big(st.players)
        p2 == IF st.loadK # 0 THEN BigAdd(p1, PowTerm(st.loadK)) ELSE p1
    IN IF ~w.nodes[n].connected THEN MAX_SAFE_INTEGER
       ELSE BigAdd(BigAdd(p2, Big(st.deficit)), Big(st.nulled * 2))

-----------------------------------------------------------------------------
(* Rest methods *)

\* Rest.makeRequest(method, endpoint, body) up to `await request(...)`: the
\* request goes out.  What follows the await is the action RestCall.
MakeRequest(w, n, method, body) == Emit(w, "request", n, body)

\* The track keys of a patch: which of data.track.encoded and
\* data.track.identifier it has (nested), and which of data.encodedTrack and
\* data.identifier (flat).
PatchKeys == {"none", "encoded", "identifier", "both"}

\* Rest.updatePlayer(options).  this.version is "v4": Node passes itself as the
\* options of its Rest and has no restVersion.
RestUpdatePlayer(w, n, nested, flat) ==
    IF nested = "both" \/ flat = "both"
    THEN Throw(w, "Cannot provide both 'encoded' and 'identifier' for track")
    ELSE MakeRequest(w, n, "PATCH", nested)

-----------------------------------------------------------------------------
(* Aqua methods *)

\* the sign of the comparator (a, b) => a.rest.calls - b.rest.calls
CmpCalls(w, a, b) ==
    IF w.nodes[a].calls > w.nodes[b].calls THEN 1
    ELSE IF w.nodes[a].calls < w.nodes[b].calls THEN -1 ELSE 0

\* Aqua.calculateLoad(node) = (systemLoad / cores) * 100, as a class:
\* "nan" (0 / 0), "inf" (x / 0) or "num" (the ratio loadK / cores).
LoadClass(w, a) ==
    IF w.nodes[a].stats.cores # 0 THEN "num"
    ELSE IF w.nodes[a].stats.loadK = 0 THEN "nan" ELSE "inf"

\* the sign Array.prototype.sort sees for calculateLoad(a) - calculateLoad(b);
\* a NaN difference counts as 0.
CmpLoad(w, a, b) ==
    LET ca == LoadClass(w, a)
        cb == LoadClass(w, b)
        x  == w.nodes[a].stats.loadK * w.nodes[b].stats.cores
        y  == w.nodes[b].stats.loadK * w.nodes[a].stats.cores
    IN IF ca = "nan" \/ cb = "nan" \/ (ca = "inf" /\ cb = "inf") THEN 0
       ELSE IF ca = "inf" THEN 1
       ELSE IF cb = "inf" THEN -1
       ELSE IF x > y THEN 1 ELSE IF x < y THEN -1 ELSE 0

Cmp(w, by, a, b) == IF by = "calls" THEN CmpCalls(w, a, b) ELSE CmpLoad(w, a, b)

RECURSIVE InsertNode(_, _, _, _)
\* x is placed behind every element it does not sort strictly before
InsertNode(w, by, s, x) ==
    IF s = <<>> THEN <<x>>
    ELSE IF Cmp(w, by, s[Len(s)], x) > 0
         THEN Append(InsertNode(w, by, SubSeq(s, 1, Len(s) - 1), x), s[Len(s)])
         ELSE Append(s, x)

RECURSIVE SortNodes(_, _, _)
\* Array.prototype.sort (stable) by insertion
SortNodes(w, by, s) ==
    IF s = <<>> THEN <<>>
    ELSE InsertNode(w, by, SortNodes(w, by, SubSeq(s, 1, Len(s) - 1)), s[Len(s)])

\* Variant of Aqua.leastUsedNodes without the filter on node.connected.
LeastUsedNodesUnfiltered(w) == SortNodes(w, "calls", w.nodeMap)

\* Aqua.leastUsedNodes
LeastUsedNodes(w) ==
    SortNodes(w, "calls",
              SelectSeqIds(w.nodeMap, {n \in NodeIds : w.nodes[n].connected}))

\* String.prototype.toLowerCase on the region names used here
ReqRegions == {"US", "eu"}
ToLowerCase(r) ==
    CASE r = "us" -> "us" [] r = "US" -> "us" [] r = "eu" -> "eu" [] r = "EU" -> "eu"

\* Aqua.fetchRegion(region)
FetchRegion(w, region) ==
    IF region = NoRegion THEN LeastUsedNodes(w)
    ELSE SortNodes(w, "load",
           SelectSeqIds(w.nodeMap,
             {n \in NodeIds : /\ w.nodes[n].connected
                              /\ ToLowerCase(region) \in w.nodes[n].regions}))

\* Aqua.destroyNode(identifier).  Node defines no method `disconnect`, so for
\* a node found under the key the first statement of the try block raises a
\* TypeError, which the catch logs: the statements after it never run.
DestroyNode(w, key) ==
    IF \A m \in SeqRange(w.nodeMap) : w.nodes[m].name # key THEN w
    ELSE Emit(w, "console.error", 0, key)

\* this.nodeMap.set(nodeId, node): an existing key keeps its place
NodeMapSet(w, n) ==
    LET s == w.nodeMap
        key == w.nodes[n].name
    IN IF \E i \in 1..Len(s) : w.nodes[s[i]].name = key
       THEN [i \in 1..Len(s) |-> IF w.nodes[s[i]].name = key THEN n ELSE s[i]]
       ELSE Append(s, n)

\* Aqua.createNode(options) for the n-th configuration entry; the Node it
\* constructs is nodes[n].
CreateNode(w, n, ctorOk) ==
    LET w1 == DestroyNode(w, w.nodes[n].name)
        w2 == [w1 EXCEPT !.nodeMap = NodeMapSet(w1, n)]
    IN Emit(NodeConnect(w2, n, ctorOk), "nodeCreate", n, "")

\* Variant of Aqua.destroyPlayer without this.players.delete(guildId).
DestroyPlayerKeepsEntry(w, g) ==
    LET o == w.players[g] IN
    IF o = 0 THEN w
    ELSE Emit(PlayerDestroy([w EXCEPT !.objs[o].listening = FALSE], o),
              "playerDestroy", o, "")

\* Aqua.destroyPlayer(guildId)
DestroyPlayer(w, g) ==
    LET o == w.players[g] IN
    IF o = 0 THEN w
    ELSE LET w1 == PlayerDestroy([w EXCEPT !.objs[o].listening = FALSE], o)
         IN Emit([w1 EXCEPT !.players[g] = 0], "playerDestroy", o, "")

\* Aqua.cleanupPlayer(player): the registry entry removed is the one under
\* player.guildId.
CleanupPlayer(w, o) ==
    LET w1 == PlayerDestroy([w EXCEPT !.objs[o].listening = FALSE], o)
    IN Emit([w1 EXCEPT !.players[w.objs[o].guildId] = 0], "playerDestroy", o, "")

\* options.idleTimeout as configured (60000 when not configured)
IdleTimeout == 1000

\* player.lastActivity: no statement of the source assigns it, so the read
\* yields undefined
LastActivity(p) == Missing

\* (now - player.lastActivity) > (this.options.idleTimeout || 60000); with an
\* undefined lastActivity the difference is NaN and the comparison is false
InactiveTooLong(w, o) ==
    IF LastActivity(w.objs[o]) = Missing THEN FALSE
    ELSE w.now - LastActivity(w.objs[o]) > IdleTimeout

\* Aqua.cleanupIdle(), its loop over the registry entries of the guilds gs
RECURSIVE SweepIdle(_, _)
SweepIdle(w, gs) ==
    IF gs = {} THEN w
    ELSE LET g == CHOOSE x \in gs : TRUE
             o == w.players[g]
             p == w.objs[o]
             w1 == IF /\ o # 0
                      /\ ~p.playing /\ ~p.paused /\ p.queue = <<>>
                      /\ InactiveTooLong(w, o)
                   THEN CleanupPlayer(w, o) ELSE w
         IN SweepIdle(w1, gs \ {g})

CleanupIdle(w) == SweepIdle(w, Guilds)

\* the slot `new Player(...)` takes: one no registry entry refers to when
\* createPlayer is entered, so that the Player it replaces stays in the heap
FreeSlot(w) ==
    CHOOSE o \in ObjIds :
        /\ \A g \in Guilds : w.players[g] # o
        /\ \A o2 \in ObjIds : (\A g \in Guilds : w.players[g] # o2) => o <= o2

\* Variant of Aqua.createPlayer without the call of destroyPlayer.
CreatePlayerNoTeardown(w, n, g, vc) ==
    LET o  == FreeSlot(w)
        w2 == [w EXCEPT !.objs[o] = NewPlayer(g, n, vc), !.players[g] = o]
        w3 == PlayerConnect(w2, o, vc)
    IN IF w3.threw # "" THEN w3 ELSE Emit(w3, "playerCreate", o, "")

\* Aqua.createPlayer(node, options)
CreatePlayer(w, n, g, vc) ==
    LET w1 == DestroyPlayer(w, g)
        o  == FreeSlot(w)
        w2 == [w1 EXCEPT !.objs[o] = NewPlayer(g, n, vc), !.players[g] = o]
        w3 == PlayerConnect(w2, o, vc)
    IN IF w3.threw # "" THEN w3 ELSE Emit(w3, "playerCreate", o, "")

\* Variant of the choice that falls back to leastUsedNodes when no node of the
\* region is found.
PickNodeWithFallback(w, region) ==
    LET r == IF region # NoRegion THEN FetchRegion(w, region) ELSE <<>>
        s == IF r # <<>> THEN r ELSE LeastUsedNodes(w)
    IN IF s = <<>> THEN 0 ELSE s[1]

\* the node createConnection picks: fetchRegion(region)[0] or leastUsedNodes[0]
PickNode(w, region) ==
    LET s == IF region # NoRegion THEN FetchRegion(w, region) ELSE LeastUsedNodes(w)
    IN IF s = <<>> THEN 0 ELSE s[1]

\* Variant of Aqua.createConnection that tears the registered player down
\* before it selects a node.
CreateConnectionTeardownFirst(w, g, region, vc) ==
    LET o == w.players[g] IN
    IF o # 0 /\ w.objs[o].voiceChannel # NoChan THEN Emit(w, "return", o, "")
    ELSE LET w0 == DestroyPlayer(w, g)
             n  == PickNode(w0, region)
         IN IF n = 0 THEN Throw(w0, "No nodes are available")
            ELSE LET w1 == CreatePlayer(w0, n, g, vc)
                 IN IF w1.threw # "" THEN w1
                    ELSE Emit(w1, "return", w1.players[g], "")

\* Variant of Aqua.createConnection without the return of an existing player.
CreateConnectionAlways(w, g, region, vc) ==
    LET n == PickNode(w, region)
    IN IF n = 0 THEN Throw(w, "No nodes are available")
       ELSE LET w1 == CreatePlayer(w, n, g, vc)
            IN IF w1.threw # "" THEN w1
               ELSE Emit(w1, "return", w1.players[g], "")

\* Aqua.createConnection(options), after init()
CreateConnection(w, g, region, vc) ==
    LET o == w.players[g] IN
    IF o # 0 /\ w.objs[o].voiceChannel # NoChan THEN Emit(w, "return", o, "")
    ELSE LET n == PickNode(w, region)
         IN IF n = 0 THEN Throw(w, "No nodes are available")
            ELSE LET w1 == CreatePlayer(w, n, g, vc)
                 IN IF w1.threw # "" THEN w1
                    ELSE Emit(w1, "return", w1.players[g], "")

\* Aqua.updateVoiceState({d, t}) for t = VOICE_STATE_UPDATE
VoiceStateUpdate(w, g, mine, hasChannel, hasSession, disconnected) ==
    LET o == w.players[g] IN
    IF o = 0 \/ ~mine THEN w
    ELSE LET w1 == SetStateUpdate(w, o, hasChannel, hasSession)
         IN IF disconnected THEN CleanupPlayer(w1, o) ELSE w1

\* Aqua.updateVoiceState({d, t}) for t = VOICE_SERVER_UPDATE
VoiceServerUpdate(w, g, endpoint, token) ==
    LET o == w.players[g] IN
    IF o = 0 THEN w ELSE SetServerUpdate(w, o, endpoint, token)

-----------------------------------------------------------------------------
(* Engine events, as dispatched by Player.handleEvent *)

\* Player.socketClosed(player, payload), called by handleEvent as
\* this[handlerName](player, track, payload): its `payload` parameter receives
\* the current track, whose `code` is undefined, so the close code of the
\* event never reaches the comparison with 4015 / 4009.
PlayerSocketClosed(w, o, code) ==
    LET seen == 0    \* payload?.code, read from the track
        w1   == IF seen = 4015 \/ seen = 4009
                THEN Send(w, o, w.objs[o].voiceChannel) ELSE w
    IN Emit(PlayerPause(Emit(w1, "socketClosed", o, ""), o, TRUE),
            "debug", o, "paused")

EventTypes == {"TrackStartEvent", "TrackEndEvent", "TrackExceptionEvent",
               "TrackStuckEvent", "TrackChangeEvent", "WebSocketClosedEvent"}

\* Player.handleEvent(payload) on the player o registered for payload.guildId;
\* `x` is payload.reason (TrackEndEvent) or payload.code (WebSocketClosedEvent).
HandleEvent(w, o, type, x) ==
    LET track == w.objs[o].current IN
    CASE type = "TrackStartEvent"      -> PlayerTrackStart(w, o, track, "trackStart")
      [] type = "TrackChangeEvent"     -> PlayerTrackStart(w, o, track, "trackChange")
      [] type = "TrackEndEvent"        -> PlayerTrackEnd(w, o, track, x)
      [] type = "TrackExceptionEvent"  -> PlayerTrackError(w, o, track, "trackError")
      [] type = "TrackStuckEvent"      -> PlayerTrackError(w, o, track, "trackStuck")
      [] type = "WebSocketClosedEvent" -> PlayerSocketClosed(w, o, x)

-----------------------------------------------------------------------------
(* Initial state: Aqua.init() has run createNode for both configured nodes *)

Arg(n, g, a, b) == [n |-> n, g |-> g, a |-> a, b |-> b]

InitNodes(tries) ==
    [n \in NodeIds |-> [NewNode(n, tries) EXCEPT !.ws = "connecting"]]

InitHeap(tries) ==
    [nodes |-> InitNodes(tries), nodeMap |-> <<1, 2>>,
     objs |-> [o \in ObjIds |-> NoObj], players |-> [g \in Guilds |-> 0]]

InitWith(T) ==
    \E tries \in T :
        /\ nodes   = InitNodes(tries)
        /\ nodeMap = <<1, 2>>
        /\ objs    = [o \in ObjIds |-> NoObj]
        /\ players = [g \in Guilds |-> 0]
        /\ fatal   = [n \in NodeIds |-> 0]
        /\ inserted = 0
        /\ now     = StartTime
        /\ last    = [op |-> "init", args |-> Arg(0, "", "", ""),
                      pre |-> InitHeap(tries), out |-> <<>>, threw |-> ""]

\* reconnectTries configured to any value in 1..MaxTries
Init == InitWith(1..MaxTries)

\* reconnectTries left at its default
InitDefault == InitWith({DEFAULT_TRIES})

-----------------------------------------------------------------------------
(* Actions: the channel of a node *)

\* the "open" event of the node's channel
WsOpen(n) ==
    /\ nodes[n].ws = "connecting"
    /\ Commit(NodeOnOpen(World, n), "open", Arg(n, "", "", ""))

\* a failed open: the channel emits "error" and then "close"
WsFailOpen(n) ==
    /\ nodes[n].ws = "connecting"
    /\ Commit(NodeOnClose(NodeOnError(World, n), n), "failOpen", Arg(n, "", "", ""))

\* the "close" event of an open channel
WsClose(n) ==
    /\ nodes[n].ws = "open"
    /\ Commit(NodeOnClose(World, n), "close", Arg(n, "", "", ""))

\* the callback scheduled by Node.#reconnect fires
RetryTimer(n) ==
    \E k \in nodes[n].timers, ctorOk \in BOOLEAN :
        Commit(NodeConnect(
                 Emit([World EXCEPT !.nodes[n].timers = @ \ {k}],
                      "nodeReconnect", n, ""), n, ctorOk),
               "retry", Arg(n, "", IF ctorOk THEN "ok" ELSE "throw", ""))

\* a caller invokes node.destroy(clean)
CallNodeDestroy(n) ==
    \E clean \in BOOLEAN :
        Commit(NodeDestroy(World, n, clean), "nodeDestroy",
               Arg(n, "", IF clean THEN "clean" ELSE "full", ""))

\* Rest.makeRequest: a request on this node's Rest got its response
RestCall(n) ==
    /\ nodes[n].calls < MaxCalls
    /\ Commit([World EXCEPT !.nodes[n].calls = @ + 1], "makeRequest",
              Arg(n, "", "", ""))

(* Actions: the registry *)

CallCreateConnection(g) ==
    \E region \in {NoRegion} \cup ReqRegions, vc \in {NoChan} \cup Chans :
        Commit(CreateConnection(World, g, region, vc), "createConnection",
               Arg(0, g, region, vc))

CallDestroyPlayer(g) ==
    Commit(DestroyPlayer(World, g), "destroyPlayer", Arg(0, g, "", ""))

\* the payloads of a VOICE_STATE_UPDATE: for another user, complete, without
\* channel id, without session id, and with status "disconnected"
VoiceShapes == {"other", "ok", "noChannel", "noSession", "disconnected"}

CallUpdateVoiceState(g) ==
    \E shape \in VoiceShapes :
        Commit(VoiceStateUpdate(World, g, shape # "other", shape # "noChannel",
                                shape # "noSession", shape = "disconnected"),
               "voiceState", Arg(0, g, shape, ""))

(* Actions: frames pushed by the engine over an open channel *)

\* Node.#onMessage -> #handlePlayerOp with op "event"
EngineEvent(n, g) ==
    /\ nodes[n].ws = "open"
    /\ players[g] # 0
    /\ objs[players[g]].listening
    /\ Len(objs[players[g]].queue) <= MaxQueue
    /\ \E type \in EventTypes :
         \E x \in IF type = "TrackEndEvent" THEN EndReasons
                  ELSE IF type = "WebSocketClosedEvent" THEN {"4015", "4000"}
                  ELSE {""} :
            Commit(HandleEvent(World, players[g], type, x), "event",
                   Arg(0, g, type, x))

\* Node.#onMessage -> #handlePlayerOp with op "playerUpdate"
EnginePlayerUpdate(n, g, positions) ==
    /\ nodes[n].ws = "open"
    /\ players[g] # 0
    /\ objs[players[g]].listening
    /\ \E c \in BOOLEAN, pos \in positions :
            Commit(OnPlayerUpdate(World, players[g], c, pos), "playerUpdate",
                   Arg(0, g, IF c THEN "connected" ELSE "disconnected", ""))

(* Actions: stats frames *)

\* the stats payloads of the engine: without any number, a lightly loaded
\* engine, one whose systemLoad is 7.1, and one that reports no cores
Payloads ==
    {[players |-> Missing, cores |-> Missing, loadK |-> Missing,
      nulled |-> Missing, deficit |-> Missing],
     [players |-> 2, cores |-> 4, loadK |-> 50, nulled |-> 1, deficit |-> 3],
     [players |-> 2, cores |-> 4, loadK |-> 710, nulled |-> 0, deficit |-> 0],
     [players |-> 1, cores |-> Missing, loadK |-> 50, nulled |-> 0, deficit |-> 0]}

\* Node.#onMessage with op "stats"
StatsFrame(n) ==
    /\ nodes[n].ws = "open"
    /\ \E payload \in Payloads :
         Commit(UpdateStats(World, n, payload), "stats", Arg(n, "", "", ""))

(* Actions: caller operations on the registered Player, aqua.get(guildId) *)

\* player.queue.add(track)
CallEnqueue(g) ==
    /\ players[g] # 0
    /\ Len(objs[players[g]].queue) < MaxQueue
    /\ \E t \in Tracks :
         Commit([World EXCEPT !.objs[players[g]].queue = Append(@, t)],
                "enqueue", Arg(0, g, t, ""))

\* player.play()
CallPlay(g) ==
    /\ players[g] # 0
    /\ Commit(PlayerPlay(World, players[g]), "play", Arg(0, g, "", ""))

\* player.setLoop(mode)
CallSetLoop(g) ==
    /\ players[g] # 0
    /\ \E mode \in LoopModes \cup {"all"} :
         Commit(PlayerSetLoop(World, players[g], mode), "setLoop", Arg(0, g, mode, ""))

\* player.queue.add(track) with a track that has no playable token yet
CallEnqueueUnresolved(g) ==
    /\ players[g] # 0
    /\ Len(objs[players[g]].queue) < MaxQueue
    /\ Commit([World EXCEPT !.objs[players[g]].queue = Append(@, Unresolved)],
              "enqueue", Arg(0, g, Unresolved, ""))

\* player.stop()
CallStop(g) ==
    /\ players[g] # 0
    /\ Commit(PlayerStop(World, players[g]), "stop", Arg(0, g, "", ""))

\* player.skip()
CallSkip(g) ==
    /\ players[g] # 0
    /\ Commit(PlayerSkip(World, players[g]), "skip", Arg(0, g, "", ""))

\* player.pause(paused)
CallPause(g) ==
    /\ players[g] # 0
    /\ \E paused \in BOOLEAN :
         Commit(PlayerPause(World, players[g], paused), "pause",
                Arg(0, g, IF paused THEN "true" ELSE "false", ""))

\* aqua.cleanupIdle(), driven by the embedding application's timer
CallCleanupIdle ==
    Commit(CleanupIdle(World), "cleanupIdle", Arg(0, "", "", ""))

\* the identities destroyNode is called with
NodeKeys == {"main", "backup", "absent"}

\* aqua.destroyNode(identifier), as Aqua.createNode and Aqua.cleanup invoke it
CallDestroyNode ==
    \E key \in NodeKeys :
        Commit(DestroyNode(World, key), "destroyNode", Arg(0, "", key, ""))

\* caller code stores the message it sent for the current track:
\* player.nowPlayingMessage = message
CallSetMessage(g) ==
    /\ players[g] # 0
    /\ ~objs[players[g]].nowPlayingMessage
    /\ Commit([World EXCEPT !.objs[players[g]].nowPlayingMessage = TRUE],
              "setMessage", Arg(0, g, "", ""))

\* a TrackEndEvent frame for a Player that holds a nowPlayingMessage:
\* handleEvent reads player.current and trackEnd runs up to its await
EngineTrackEnd(n, g) ==
    /\ nodes[n].ws = "open"
    /\ players[g] # 0
    /\ objs[players[g]].listening
    /\ objs[players[g]].nowPlayingMessage
    /\ objs[players[g]].ending = <<>>
    /\ \E reason \in EndReasons :
         Commit(PlayerTrackEndAwait(World, players[g],
                                    objs[players[g]].current, reason),
                "trackEndAwait", Arg(0, g, "TrackEndEvent", reason))

\* the promise of nowPlayingMessage.delete() settles and trackEnd continues
TrackEndResume(g) ==
    /\ players[g] # 0
    /\ objs[players[g]].ending # <<>>
    /\ Len(objs[players[g]].queue) <= MaxQueue
    /\ Commit(PlayerTrackEndResume(World, players[g]), "trackEndResume",
              Arg(0, g, "TrackEndEvent", Head(objs[players[g]].ending).reason))

\* player.destroy(), called on the Player that aqua.get(guildId) returns
CallPlayerDestroy(g) ==
    /\ players[g] # 0
    /\ Commit(PlayerDestroy(World, players[g]), "playerDestroy", Arg(0, g, "", ""))

\* player.connect({guildId, voiceChannel})
CallConnect(g) ==
    /\ players[g] # 0
    /\ \E vc \in Chans :
         Commit(PlayerConnect(World, players[g], vc), "connect", Arg(0, g, vc, ""))

\* player.setVoiceChannel(channel)
CallSetVoiceChannel(g) ==
    /\ players[g] # 0
    /\ \E channel \in {"", "vc2"} \cup Chans :
         Commit(PlayerSetVoiceChannel(World, players[g], channel),
                "setVoiceChannel", Arg(0, g, channel, ""))

\* a caller invokes the public node.connect() on a node that has not used up
\* its reconnect attempts
CallNodeConnect(n) ==
    /\ nodes[n].attempted < nodes[n].reconnectTries
    /\ \E ctorOk \in BOOLEAN :
         Commit(NodeConnect(World, n, ctorOk), "connect",
                Arg(n, "", IF ctorOk THEN "ok" ELSE "throw", ""))

-----------------------------------------------------------------------------
(* Actions: a caller of node.rest *)

\* node.rest.updatePlayer({guildId, data})
CallRestUpdatePlayer(n, g) ==
    \E nested \in PatchKeys, flat \in PatchKeys :
        Commit(RestUpdatePlayer(World, n, nested, flat), "restUpdatePlayer",
               Arg(n, g, nested, flat))

(* Actions: voice server updates and the clock *)

CallVoiceServerUpdate(g) ==
    \E endpoint \in Endpoints \cup {""}, token \in Tokens :
        Commit(VoiceServerUpdate(World, g, endpoint, token), "voiceServer",
               Arg(0, g, endpoint, token))

\* the instants at which calls are made: 10, 990, 1000 and 1500 apart
Instants == {StartTime + d : d \in {0, 10, 990, 1000, 1010, 2510}}

\* time passes until a later instant
Tick ==
    \E t \in Instants :
        /\ t > now
        /\ now' = t
        /\ last' = [op |-> "tick", args |-> Arg(t - now, "", "", ""),
                    pre |-> Heap(World), out |-> <<>>, threw |-> ""]
        /\ UNCHANGED <<nodes, nodeMap, objs, players, fatal, inserted>>

\* the k-th track a caller hands to addToPreviousTrack
HistoryTrack(k) == ToString(k)

\* player.addToPreviousTrack(track), with a track not inserted before
CallAddToPreviousTrack(g) ==
    /\ players[g] # 0
    /\ inserted < MaxInserts
    /\ Commit(AddToPreviousTrack(World, players[g], HistoryTrack(inserted + 1)),
              "addToPreviousTrack", Arg(0, g, HistoryTrack(inserted + 1), ""))

-----------------------------------------------------------------------------
(* Specifications.  Every action above runs the handler as the source has   *)
(* it; a specification chooses which handlers the environment triggers and   *)
(* for which guilds.                                                         *)

OneGuild == {"g1"}

\* The session registry: session creation / destruction, voice state updates
\* and engine frames, over nodes whose channels open and stay open.
NextRegistry ==
    \/ \E n \in NodeIds : WsOpen(n)
    \/ \E g \in OneGuild : CallCreateConnection(g)
    \/ \E g \in OneGuild : CallDestroyPlayer(g)
    \/ \E g \in OneGuild : CallUpdateVoiceState(g)
    \/ \E n \in NodeIds, g \in OneGuild : EngineEvent(n, g)
    \/ \E n \in NodeIds, g \in OneGuild : EnginePlayerUpdate(n, g, {0})

SpecRegistry == InitDefault /\ [][NextRegistry]_vars

\* The node pool: channel events, retry timers and node destruction, with
\* sessions created and destroyed on the nodes.
NextNode ==
    \/ \E n \in NodeIds : WsOpen(n)
    \/ \E n \in NodeIds : WsFailOpen(n)
    \/ \E n \in NodeIds : WsClose(n)
    \/ \E n \in NodeIds : RetryTimer(n)
    \/ \E n \in NodeIds : CallNodeDestroy(n)
    \/ \E g \in OneGuild : CallCreateConnection(g)
    \/ \E g \in OneGuild : CallDestroyPlayer(g)

SpecNode == Init /\ [][NextNode]_vars

\* Node health: stats frames over channels that open, close and are retried.
NextPenalty ==
    \/ \E n \in NodeIds : WsOpen(n)
    \/ \E n \in NodeIds : WsFailOpen(n)
    \/ \E n \in NodeIds : WsClose(n)
    \/ \E n \in NodeIds : RetryTimer(n)
    \/ \E n \in NodeIds : StatsFrame(n)

SpecPenalty == InitDefault /\ [][NextPenalty]_vars

\* Playback of one session: node 1 has opened and
\* createConnection({guildId: "g1", voiceChannel: "vc1"}) has returned.
InitPlay ==
    LET w0 == [InitHeap(DEFAULT_TRIES) EXCEPT !.nodes = InitNodes(DEFAULT_TRIES)]
        w1 == NodeOnOpen([nodes |-> w0.nodes, nodeMap |-> w0.nodeMap,
                          objs |-> w0.objs, players |-> w0.players,
                          out |-> <<>>, threw |-> "", now |-> StartTime], 1)
        w2 == CreateConnection([w1 EXCEPT !.out = <<>>], "g1", NoRegion, "vc1")
    IN /\ nodes   = w2.nodes
       /\ nodeMap = w2.nodeMap
       /\ objs    = w2.objs
       /\ players = w2.players
       /\ fatal   = [n \in NodeIds |-> 0]
       /\ inserted = 0
       /\ now     = StartTime
       /\ last    = [op |-> "createConnection", args |-> Arg(0, "g1", NoRegion, "vc1"),
                      pre |-> Heap(w1), out |-> w2.out, threw |-> w2.threw]

NextPlay ==
    \/ \E g \in OneGuild : CallEnqueue(g)
    \/ \E g \in OneGuild : CallPlay(g)
    \/ \E g \in OneGuild : CallSetLoop(g)
    \/ \E n \in NodeIds, g \in OneGuild : EngineEvent(n, g)
    \/ \E n \in NodeIds, g \in OneGuild : EnginePlayerUpdate(n, g, {0})

SpecPlay == InitPlay /\ [][NextPlay]_vars

\* The history of a session that callers fill, destroy and create again.
NextHistory ==
    \/ \E g \in OneGuild : CallAddToPreviousTrack(g)
    \/ \E g \in OneGuild : CallDestroyPlayer(g)
    \/ \E g \in OneGuild : CallCreateConnection(g)

SpecHistory == InitPlay /\ [][NextHistory]_vars

\* The voice link of one session: state and server updates over time.
NextVoice ==
    \/ Tick
    \/ \E g \in OneGuild : CallUpdateVoiceState(g)
    \/ \E g \in OneGuild : CallVoiceServerUpdate(g)
    \/ \E g \in OneGuild : CallCreateConnection(g)

SpecVoice == InitPlay /\ [][NextVoice]_vars

\* Patches handed to the Rest of a node, and the responses to its requests.
\* The caller's transport controls on one session, with the engine reporting
\* the voice link up or down.
NextTransport ==
    \/ \E g \in OneGuild : CallEnqueue(g)
    \/ \E g \in OneGuild : CallEnqueueUnresolved(g)
    \/ \E g \in OneGuild : CallPlay(g)
    \/ \E g \in OneGuild : CallStop(g)
    \/ \E g \in OneGuild : CallSkip(g)
    \/ \E g \in OneGuild : CallPause(g)
    \/ \E n \in NodeIds, g \in OneGuild : EnginePlayerUpdate(n, g, {0})

SpecTransport == InitPlay /\ [][NextTransport]_vars

\* One session that plays while gateway voice updates and the engine's
\* playerUpdate frames arrive.
NextLeave ==
    \/ \E g \in OneGuild : CallEnqueue(g)
    \/ \E g \in OneGuild : CallPlay(g)
    \/ \E n \in NodeIds, g \in OneGuild : EnginePlayerUpdate(n, g, {0})
    \/ \E g \in OneGuild : CallUpdateVoiceState(g)
    \/ \E g \in OneGuild : CallVoiceServerUpdate(g)

SpecLeave == InitPlay /\ [][NextLeave]_vars

\* A session that its caller uses at the start and then leaves alone, while
\* time passes and the idle sweep runs.
NextIdle ==
    \/ Tick
    \/ CallCleanupIdle
    \/ \E g \in OneGuild : now = StartTime /\ CallEnqueue(g)
    \/ \E g \in OneGuild : now = StartTime /\ CallPlay(g)
    \/ \E g \in OneGuild : now = StartTime /\ CallStop(g)
    \/ \E g \in OneGuild : now = StartTime /\ CallPause(g)

SpecIdle == InitPlay /\ [][NextIdle]_vars

\* The pool after Aqua.init() over a configuration of two entries whose
\* second entry is named like the first ("main") or differently ("backup").
InitPool ==
    \E second \in {"main", "backup"}, ctorOk \in BOOLEAN :
        LET w0 == [nodes |-> [n \in NodeIds |->
                                [NewNode(n, DEFAULT_TRIES) EXCEPT
                                   !.name = IF n = 1 THEN "main" ELSE second]],
                   nodeMap |-> <<>>,
                   objs |-> [o \in ObjIds |-> NoObj],
                   players |-> [g \in Guilds |-> 0],
                   out |-> <<>>, threw |-> "", now |-> StartTime]
            w1 == [CreateNode(w0, 1, TRUE) EXCEPT !.out = <<>>]
            w2 == CreateNode(w1, 2, ctorOk)
        IN /\ nodes   = w2.nodes
           /\ nodeMap = w2.nodeMap
           /\ objs    = w2.objs
           /\ players = w2.players
           /\ fatal   = [n \in NodeIds |-> 0]
           /\ inserted = 0
           /\ now     = StartTime
           /\ last    = [op |-> "createNode", args |-> Arg(2, "", second, ""),
                          pre |-> Heap(w1), out |-> w2.out, threw |-> w2.threw]

NextPool ==
    \/ \E n \in NodeIds : WsOpen(n)
    \/ \E n \in NodeIds : WsFailOpen(n)
    \/ \E n \in NodeIds : WsClose(n)
    \/ \E n \in NodeIds : RetryTimer(n)
    \/ \E n \in NodeIds : StatsFrame(n)
    \/ CallDestroyNode

SpecPool == InitPool /\ [][NextPool]_vars

\* One session whose caller keeps a nowPlayingMessage, so that trackEnd
\* suspends while the message is deleted.
NextAwait ==
    \/ \E g \in OneGuild : CallEnqueue(g)
    \/ \E g \in OneGuild : CallPlay(g)
    \/ \E g \in OneGuild : CallSetLoop(g)
    \/ \E g \in OneGuild : CallSetMessage(g)
    \/ \E n \in NodeIds, g \in OneGuild : EngineTrackEnd(n, g)
    \/ \E g \in OneGuild : TrackEndResume(g)

SpecAwait == InitPlay /\ [][NextAwait]_vars

\* One session that its caller destroys with player.destroy() and keeps using.
NextTerminal ==
    \/ \E g \in OneGuild : CallEnqueue(g)
    \/ \E g \in OneGuild : CallPlay(g)
    \/ \E g \in OneGuild : CallPause(g)
    \/ \E g \in OneGuild : CallSkip(g)
    \/ \E g \in OneGuild : CallPlayerDestroy(g)
    \/ \E g \in OneGuild : CallConnect(g)
    \/ \E g \in OneGuild : CallSetVoiceChannel(g)
    \/ \E n \in NodeIds, g \in OneGuild : EngineEvent(n, g)
    \/ \E n \in NodeIds, g \in OneGuild : EnginePlayerUpdate(n, g, {0})

SpecTerminal == InitPlay /\ [][NextTerminal]_vars

\* The channels of the nodes, with callers that invoke connect() and destroy().
NextConnect ==
    \/ \E n \in NodeIds : WsOpen(n)
    \/ \E n \in NodeIds : WsFailOpen(n)
    \/ \E n \in NodeIds : WsClose(n)
    \/ \E n \in NodeIds : RetryTimer(n)
    \/ \E n \in NodeIds : CallNodeConnect(n)
    \/ \E n \in NodeIds : CallNodeDestroy(n)

SpecConnect == Init /\ [][NextConnect]_vars

NextRest ==
    \/ \E n \in NodeIds, g \in Guilds : CallRestUpdatePlayer(n, g)
    \/ \E n \in NodeIds : RestCall(n)

SpecRest == InitDefault /\ [][NextRest]_vars

\* Everything together.
Next ==
    \/ NextRest
    \/ NextVoice
    \/ NextHistory
    \/ NextRegistry
    \/ NextNode
    \/ NextPenalty
    \/ NextPlay
    \/ NextTransport
    \/ NextLeave
    \/ NextIdle
    \/ NextPool
    \/ NextAwait
    \/ NextTerminal
    \/ NextConnect
    \/ \E n \in NodeIds : RestCall(n)

Spec == Init /\ [][Next]_vars

-----------------------------------------------------------------------------
(* Claims about the registry and the node pool *)

\* the Player the last call found registered for its guild, 0 if none
OldObj == last.pre.players[last.args.g]

\* the last call was a createConnection that constructed a new Player
CreatedSession ==
    /\ last.op = "createConnection"
    /\ last.threw = ""
    /\ players[last.args.g] # 0
    /\ players[last.args.g] # OldObj

\* the position of the first output of kind k about id in the last call, 0 if none
FirstOut(k, id) ==
    IF \E i \in 1..Len(last.out) : last.out[i].k = k /\ last.out[i].id = id
    THEN CHOOSE i \in 1..Len(last.out) :
           /\ last.out[i].k = k /\ last.out[i].id = id
           /\ \A j \in 1..(i - 1) : ~(last.out[j].k = k /\ last.out[j].id = id)
    ELSE 0

\* C1: in every reachable state each registry entry is a Player of that guild
\* and at most one Player per guild id is live (connected); a createConnection
\* that finds a session without voice channel tears it down (not connected, no
\* listeners, playerDestroy emitted) before the new session is created.
C1_OneLiveSessionPerGuild ==
    /\ \A g \in Guilds : players[g] # 0 => objs[players[g]].guildId = g
    /\ \A o1, o2 \in ObjIds :
         (o1 # o2 /\ objs[o1].guildId # "" /\ objs[o1].guildId = objs[o2].guildId)
            => ~(objs[o1].connected /\ objs[o2].connected)
    /\ (CreatedSession /\ OldObj # 0) =>
         /\ ~objs[OldObj].connected
         /\ ~objs[OldObj].listening
         /\ FirstOut("playerDestroy", OldObj) > 0
         /\ FirstOut("playerDestroy", OldObj) < FirstOut("playerCreate", players[last.args.g])

\* C1 witness: createConnection replaced a live session that had no voice channel.
C1_Witness ==
    /\ CreatedSession
    /\ OldObj # 0
    /\ last.pre.objs[OldObj].connected
    /\ last.pre.objs[OldObj].voiceChannel = NoChan
    /\ objs[players[last.args.g]].connected

\* C2: node selection, with or without a region, returns connected nodes only,
\* and a session that createConnection constructs is bound to a node that was
\* connected when it was called.
C2_SelectsConnectedOnly ==
    /\ \A region \in {NoRegion} \cup ReqRegions :
         \A n \in SeqRange(FetchRegion(World, region)) : nodes[n].connected
    /\ \A n \in SeqRange(LeastUsedNodes(World)) : nodes[n].connected
    /\ CreatedSession =>
         LET n == objs[players[last.args.g]].nodes
         IN n \in NodeIds /\ last.pre.nodes[n].connected

\* C2 witness: a session was created while one pooled node was connected and
\* another pooled node was not.
C2_Witness ==
    /\ CreatedSession
    /\ \E n \in SeqRange(last.pre.nodeMap) : last.pre.nodes[n].connected
    /\ \E n \in SeqRange(last.pre.nodeMap) : ~last.pre.nodes[n].connected

\* C4: immediately after a node's channel opens, the node's reconnect-attempt
\* counter is 0.
C4_OpenResetsAttempts ==
    last.op = "open" => nodes[last.args.n].attempted = 0

\* a node whose attempt counter has met reconnectTries; the counter counts
\* every failure, so this holds once reconnectTries consecutive opens failed
Exhausted(n) == nodes[n].attempted >= nodes[n].reconnectTries

\* C5: once a node's failures have reached reconnectTries it is not connected,
\* not in the node pool, has no channel and no pending retry, and no retry
\* (the only caller of connect()) ever runs on an exhausted node.
C5_ExhaustedNodeIsFinal ==
    \A n \in NodeIds :
        /\ Exhausted(n) =>
             /\ ~nodes[n].connected
             /\ n \notin SeqRange(nodeMap)
             /\ nodes[n].timers = {}
             /\ nodes[n].ws = "null"
        /\ (last.op = "retry" /\ last.args.n = n) =>
             last.pre.nodes[n].attempted < last.pre.nodes[n].reconnectTries

\* C5 witness: a failed open was the last of reconnectTries = MaxTries failures.
C5_Witness ==
    /\ last.op = "failOpen"
    /\ nodes[last.args.n].reconnectTries = MaxTries
    /\ nodes[last.args.n].attempted = MaxTries
    /\ last.pre.nodes[last.args.n].attempted = MaxTries - 1
    /\ last.args.n \in SeqRange(last.pre.nodeMap)

\* C6: the fatal error of a node has been emitted exactly once if the node is
\* exhausted, and never otherwise.
C6_FatalExactlyOnce ==
    \A n \in NodeIds : fatal[n] = IF Exhausted(n) THEN 1 ELSE 0

\* C6 witness: a channel close exhausted the node and the fatal error is out.
C6_Witness ==
    /\ last.op = "close"
    /\ Exhausted(last.args.n)
    /\ ~(last.pre.nodes[last.args.n].attempted >= nodes[last.args.n].reconnectTries)
    /\ CountFatal(last.out, last.args.n) = 1

\* the last call ran the full Node.destroy on node n
FullyDestroyed(n) ==
    \E i \in 1..Len(last.out) :
        last.out[i].k = "nodeDestroy" /\ last.out[i].id = n /\ last.out[i].d = ""

\* C7: after a full node destroy no session bound to that node is still live.
C7_DestroyCascades ==
    \A n \in NodeIds : FullyDestroyed(n) =>
        \A g \in Guilds :
            (players[g] # 0 /\ objs[players[g]].nodes = n)
                => ~objs[players[g]].connected

-----------------------------------------------------------------------------
(* Claims about node health *)

\* C3: the penalty of every node that is not connected is strictly greater
\* than the penalty of every connected node.
C3_DisconnectedPenaltyIsGreatest ==
    \A a, b \in NodeIds :
        (~nodes[a].connected /\ nodes[b].connected)
            => BigLess(Penalties(World, b), Penalties(World, a))

-----------------------------------------------------------------------------
(* Claims about playback *)

\* the Player the last call acted on, before and after the call
PlayerBefore == last.pre.objs[OldObj]
PlayerAfter  == objs[OldObj]

\* the last call delivered a TrackEndEvent whose reason is neither a load
\* failure nor cleanup, to a connected Player that had a current track and
\* only tracks in its queue
NormalTrackEnd ==
    /\ last.op = "event"
    /\ last.args.a = "TrackEndEvent"
    /\ NormReason(last.args.b) \notin {"loadfailed", "cleanup"}
    /\ OldObj # 0
    /\ PlayerBefore.connected
    /\ PlayerBefore.current \in Tracks
    /\ SeqRange(PlayerBefore.queue) \subseteq Tracks

Emitted(k) == \E i \in 1..Len(last.out) : last.out[i].k = k

\* C8: play() on a connected session with a queued track, and a normal trackEnd
\* with loop = none and a non-empty queue, each dequeue exactly one track:
\* afterwards current is the former queue head, playing is true and the queue
\* is the former tail.
C8_NormalAdvance ==
    LET advance == \/ /\ last.op = "play"
                      /\ OldObj # 0
                      /\ PlayerBefore.connected
                      /\ SeqRange(PlayerBefore.queue) \subseteq Tracks
                   \/ NormalTrackEnd /\ PlayerBefore.loop = "none"
    IN (advance /\ PlayerBefore.queue # <<>>) =>
         /\ last.threw = ""
         /\ PlayerAfter.current = Head(PlayerBefore.queue)
         /\ PlayerAfter.playing
         /\ PlayerAfter.queue = Tail(PlayerBefore.queue)

\* C8 witness: with loop = none, current = A and queue = [B], a trackEnd
\* "finished" left current = B, playing, and an empty queue.
C8_Witness ==
    /\ NormalTrackEnd
    /\ last.args.b = "finished"
    /\ PlayerBefore.loop = "none"
    /\ PlayerBefore.current = "A"
    /\ PlayerBefore.queue = <<"B">>
    /\ PlayerAfter.current = "B"
    /\ PlayerAfter.playing
    /\ PlayerAfter.queue = <<>>

\* C9: with loop = none, after a normal trackEnd that advances to the next
\* queued track, the finished track is the first entry of the history.
C9_FinishedTrackInHistory ==
    (NormalTrackEnd /\ PlayerBefore.loop = "none" /\ PlayerBefore.queue # <<>>) =>
        /\ PlayerAfter.previousTracks # <<>>
        /\ Head(PlayerAfter.previousTracks) = PlayerBefore.current

\* C10: with loop = queue, a normal trackEnd for track A appends A at the queue
\* tail and then starts the head of that queue: queueRepeat is emitted, the
\* session stays connected and playing, no queueEnd is emitted, and when the
\* queue was empty the track started is A again.
C10_QueueLoop ==
    (NormalTrackEnd /\ PlayerBefore.loop = "queue") =>
        LET q == Append(PlayerBefore.queue, PlayerBefore.current)
        IN /\ last.threw = ""
           /\ Emitted("queueRepeat")
           /\ ~Emitted("queueEnd")
           /\ PlayerAfter.current = Head(q)
           /\ PlayerAfter.queue = Tail(q)
           /\ PlayerAfter.playing
           /\ PlayerAfter.connected
           /\ players[last.args.g] = OldObj

\* C10 witness: with loop = queue and current = A, a trackEnd with one other
\* track B queued started B and left A at the tail.
C10_Witness ==
    /\ NormalTrackEnd
    /\ PlayerBefore.loop = "queue"
    /\ PlayerBefore.current = "A"
    /\ PlayerBefore.queue = <<"B">>
    /\ PlayerAfter.current = "B"
    /\ PlayerAfter.queue = <<"A">>
    /\ PlayerAfter.playing

\* the last call delivered a TrackEndEvent whose reason is a load failure or
\* cleanup, to a connected Player that had a current track and only tracks in
\* its queue
SkippingTrackEnd ==
    /\ last.op = "event"
    /\ last.args.a = "TrackEndEvent"
    /\ NormReason(last.args.b) \in {"loadfailed", "cleanup"}
    /\ OldObj # 0
    /\ PlayerBefore.connected
    /\ PlayerBefore.current \in Tracks
    /\ SeqRange(PlayerBefore.queue) \subseteq Tracks

\* C11: in every loop mode, a trackEnd with reason load-failure or cleanup and
\* a queue [B, C, ...] drops the finished track and advances by exactly one
\* track: afterwards current = B and the queue is [C, ...].
C11_LoadFailedAdvancesOne ==
    (SkippingTrackEnd /\ Len(PlayerBefore.queue) >= 2) =>
        /\ PlayerAfter.current = Head(PlayerBefore.queue)
        /\ PlayerAfter.queue = Tail(PlayerBefore.queue)

-----------------------------------------------------------------------------
(* Claims about the history *)

\* C12: the history never holds more than 50 tracks and is ordered most recent
\* first (its i-th entry is the i-th most recently inserted track); each
\* insertion puts the track in front of the former history, from which, when
\* it held 50 entries, exactly the last one is evicted.
C12_HistoryCapped ==
    /\ \A o \in ObjIds :
         LET h == objs[o].previousTracks
         IN /\ Len(h) <= HISTORY_CAP
            /\ \A i \in 1..Len(h) : h[i] = HistoryTrack(inserted - i + 1)
    /\ last.op = "addToPreviousTrack" =>
         LET h == PlayerBefore.previousTracks
         IN PlayerAfter.previousTracks =
              <<last.args.a>> \o (IF Len(h) = HISTORY_CAP
                                  THEN SubSeq(h, 1, HISTORY_CAP - 1) ELSE h)

\* C12 witness: the 51st insertion in a row evicted the first track inserted.
C12_Witness ==
    /\ last.op = "addToPreviousTrack"
    /\ Len(PlayerBefore.previousTracks) = HISTORY_CAP
    /\ PlayerBefore.previousTracks[HISTORY_CAP] = HistoryTrack(1)
    /\ Len(PlayerAfter.previousTracks) = HISTORY_CAP
    /\ PlayerAfter.previousTracks[1] = HistoryTrack(HISTORY_CAP + 1)
    /\ PlayerAfter.previousTracks[HISTORY_CAP] = HistoryTrack(2)

-----------------------------------------------------------------------------
(* Claims about the voice link *)

\* the last call was a VOICE_SERVER_UPDATE with an endpoint for a registered
\* session: a voice credential push
VoicePush ==
    /\ last.op = "voiceServer"
    /\ last.args.a # ""
    /\ OldObj # 0

\* the time since the push before this one that was let through
Elapsed == now - PlayerBefore.lastUpdateTime

VoiceSent == Cardinality({i \in 1..Len(last.out) : last.out[i].k = "voice"})

\* C13: a voice update is transmitted only by a push made at least 1000 time
\* units after the previous transmitted one, and then exactly once; a push
\* inside the window transmits nothing and leaves the window as it was, and
\* nothing is transmitted later on its behalf.
C13_PushThrottled ==
    /\ VoiceSent > 0 => (VoicePush /\ Elapsed >= UPDATE_THROTTLE /\ VoiceSent = 1)
    /\ (VoicePush /\ PlayerBefore.linked /\ Elapsed >= UPDATE_THROTTLE) =>
         (VoiceSent = 1 /\ PlayerAfter.lastUpdateTime = now)
    /\ (VoicePush /\ Elapsed < UPDATE_THROTTLE) =>
         (VoiceSent = 0 /\ PlayerAfter.lastUpdateTime = PlayerBefore.lastUpdateTime)

\* C13 witness: a push 10 time units after a transmitted push was dropped.
C13_Witness ==
    /\ VoicePush
    /\ PlayerBefore.linked
    /\ PlayerBefore.lastUpdateTime >= StartTime
    /\ Elapsed = 10
    /\ VoiceSent = 0

\* C14: a voice update is transmitted only when the voice link holds both the
\* session id of a state update and the endpoint of a server update.
C14_PushNeedsBothSignals ==
    VoiceSent > 0 => (PlayerAfter.sessionId # "" /\ PlayerAfter.endpoint # "")

-----------------------------------------------------------------------------
(* Claims about the idempotence of the registry operations *)

\* the last call changed no node, no registry entry and no registered Player
NothingChanged ==
    /\ nodes = last.pre.nodes
    /\ nodeMap = last.pre.nodeMap
    /\ players = last.pre.players
    /\ \A g \in Guilds :
         players[g] # 0 => objs[players[g]] = last.pre.objs[players[g]]

\* C15: after destroyPlayer(guildId) the guild has no registry entry and its
\* former session is not connected and has no listeners; a second
\* destroyPlayer(guildId) leaves every object as it is and emits nothing; and a
\* destroyPlayer for a guild without session changed nothing and emitted
\* nothing.
C15_DestroyIdempotent ==
    last.op = "destroyPlayer" =>
        /\ last.threw = ""
        /\ players[last.args.g] = 0
        /\ OldObj # 0 => (~PlayerAfter.connected /\ ~PlayerAfter.listening)
        /\ OldObj = 0 => (NothingChanged /\ last.out = <<>>)
        /\ LET again == DestroyPlayer(World, last.args.g)
           IN Heap(again) = Heap(World) /\ again.out = <<>> /\ again.threw = ""

\* C15 witness: destroyPlayer removed a connected session.
C15_Witness ==
    /\ last.op = "destroyPlayer"
    /\ OldObj # 0
    /\ PlayerBefore.connected
    /\ Emitted("playerDestroy")

\* C16: createConnection for a guild whose registered session has a voice
\* channel returns that session and nothing else: no object changes, no voice
\* gateway command is sent and no notification is emitted.
C16_CreateIdempotent ==
    (last.op = "createConnection" /\ OldObj # 0
        /\ PlayerBefore.voiceChannel # NoChan) =>
        /\ last.threw = ""
        /\ last.out = <<[k |-> "return", id |-> OldObj, d |-> ""]>>
        /\ NothingChanged
        /\ players[last.args.g] = OldObj

\* C16 witness: createConnection with another voice channel argument and a
\* region came back with the connected session the guild already had.
C16_Witness ==
    /\ last.op = "createConnection"
    /\ OldObj # 0
    /\ PlayerBefore.voiceChannel = "vc1"
    /\ PlayerBefore.connected
    /\ last.args.b = NoChan
    /\ last.args.a # NoRegion
    /\ last.threw = ""

-----------------------------------------------------------------------------
(* Claims about Rest *)

RequestsSent == Cardinality({i \in 1..Len(last.out) : last.out[i].k = "request"})

\* the patch of the last call has an encoded track / an identifier
PatchHasEncoded ==
    last.args.a \in {"encoded", "both"} \/ last.args.b \in {"encoded", "both"}
PatchHasIdentifier ==
    last.args.a \in {"identifier", "both"} \/ last.args.b \in {"identifier", "both"}

\* C17: rest.updatePlayer with a patch that has both an encoded track and an
\* identifier fails without issuing a request and without touching the node
\* (its request counter included); with at most one of them exactly one
\* request is issued.
C17_ConflictingPatchRejected ==
    last.op = "restUpdatePlayer" =>
        /\ nodes = last.pre.nodes
        /\ (PatchHasEncoded /\ PatchHasIdentifier) =>
             (last.threw # "" /\ RequestsSent = 0)
        /\ ~(PatchHasEncoded /\ PatchHasIdentifier) =>
             (last.threw = "" /\ RequestsSent = 1)

-----------------------------------------------------------------------------
(* Claims about node selection in createConnection *)

\* the last call was a createConnection for a guild without a session that
\* createConnection returns as it is
CreateWithoutReusable ==
    /\ last.op = "createConnection"
    /\ ~(OldObj # 0 /\ PlayerBefore.voiceChannel # NoChan)

\* C18: createConnection for a guild without reusable session fails with "No
\* nodes are available" exactly when the selection is empty, and then changes
\* no node, no registry entry and no session and emits nothing.
C18_NoNodesAvailable ==
    CreateWithoutReusable =>
        /\ (PickNode(last.pre, last.args.a) = 0) <=> (last.threw = "No nodes are available")
        /\ last.threw = "No nodes are available" => (NothingChanged /\ last.out = <<>>)

\* C18 witness: createConnection failed for a guild whose registered session
\* (one without voice channel) was connected, and the session is as it was.
C18_Witness ==
    /\ CreateWithoutReusable
    /\ last.threw = "No nodes are available"
    /\ OldObj # 0
    /\ PlayerBefore.connected
    /\ PlayerAfter.connected

\* a pooled connected node lists the region, whatever the case of the letters
ListedByConnected(h, region) ==
    \E n \in SeqRange(h.nodeMap) :
        /\ h.nodes[n].connected
        /\ ToLowerCase(region) \in {ToLowerCase(r) : r \in h.nodes[n].regions}

\* C19: when a region is given that no connected node lists, fetchRegion is
\* empty, and a createConnection with that region for a guild without reusable
\* session fails and creates nothing, whether or not other nodes are connected.
C19_NoRegionFallback ==
    /\ \A region \in ReqRegions :
         ~ListedByConnected(World, region) => FetchRegion(World, region) = <<>>
    /\ (CreateWithoutReusable /\ last.args.a # NoRegion
          /\ ~ListedByConnected(last.pre, last.args.a)) =>
         /\ last.threw = "No nodes are available"
         /\ NothingChanged
         /\ ~Emitted("playerCreate")

\* C19 witness: createConnection with a region failed while a node that does
\* not list the region was connected.
C19_Witness ==
    /\ CreateWithoutReusable
    /\ last.args.a # NoRegion
    /\ ~ListedByConnected(last.pre, last.args.a)
    /\ LeastUsedNodes(last.pre) # <<>>
    /\ last.threw = "No nodes are available"

\* s is ordered by ascending penalty
AscendingPenalty(s) ==
    \A i, j \in 1..Len(s) :
        i < j => ~BigLess(Penalties(World, s[j]), Penalties(World, s[i]))

\* C20: node selection, with or without region, returns the connected nodes in
\* ascending order of penalty, so that its first element is a connected node
\* of minimal penalty.
C20_SelectionByPenalty ==
    \A region \in {NoRegion} \cup ReqRegions :
        AscendingPenalty(FetchRegion(World, region))

\* C21: a connected node of the pool is among the nodes fetchRegion returns for
\* a requested region exactly when its configured region list contains that
\* region, letter case disregarded on the requested value and on the
\* configured entries.
C21_RegionCaseInsensitive ==
    \A region \in ReqRegions :
        \A n \in SeqRange(nodeMap) :
            nodes[n].connected =>
                (n \in SeqRange(FetchRegion(World, region))
                   <=> ToLowerCase(region) \in
                         {ToLowerCase(r) : r \in nodes[n].regions})

\* the patches the last call handed to the bound node's Rest for its Player
PatchesSent ==
    SelectSeq(last.out, LAMBDA e : e.k = "patch" /\ e.id = OldObj)

\* C22: play() on a session not marked connected is rejected, changes no
\* session state and issues no command; play() with an empty queue changes
\* nothing; otherwise play() removes exactly the queue head, makes it the
\* current track, sets playing and position 0, and issues one set-track
\* command to the bound node.
C22_PlayContract ==
    (last.op = "play" /\ OldObj # 0) =>
        IF ~PlayerBefore.connected
        THEN /\ last.threw = "Player must be connected first."
             /\ PlayerAfter = PlayerBefore
             /\ PatchesSent = <<>>
        ELSE IF PlayerBefore.queue = <<>>
        THEN /\ last.threw = ""
             /\ PlayerAfter = PlayerBefore
             /\ PatchesSent = <<>>
        ELSE /\ last.threw = ""
             /\ PlayerAfter.queue = Tail(PlayerBefore.queue)
             /\ PlayerAfter.current = Head(PlayerBefore.queue)
             /\ PlayerAfter.playing
             /\ PlayerAfter.position = 0
             /\ Len(PatchesSent) = 1
             /\ PatchesSent[1].d = Head(PlayerBefore.queue)

\* C23: after stop() on a playing session, the session has no current track,
\* is not playing, and a clear-track command has been issued to the bound node.
C23_StopClearsCurrent ==
    (last.op = "stop" /\ OldObj # 0 /\ PlayerBefore.playing) =>
        /\ PlayerAfter.current = NoTrack
        /\ ~PlayerAfter.playing
        /\ \E i \in 1..Len(PatchesSent) : PatchesSent[i].d = "track:null"

\* C24: skip() on a connected, playing session with a non-empty queue starts
\* the next track: afterwards the former queue head is the current track and
\* the session is playing.
C24_SkipStartsNext ==
    (/\ last.op = "skip"
     /\ OldObj # 0
     /\ PlayerBefore.connected
     /\ PlayerBefore.playing
     /\ PlayerBefore.queue # <<>>) =>
        /\ PlayerAfter.current = Head(PlayerBefore.queue)
        /\ PlayerAfter.playing

\* C25: on a socketClosed engine event whose close code is 4015 or 4009 the
\* session sends a set-voice-state command for its voice channel to the
\* gateway; for every close code the session ends paused and the event is
\* surfaced.
C25_SocketClosedRecovers ==
    (last.op = "event" /\ last.args.a = "WebSocketClosedEvent" /\ OldObj # 0) =>
        /\ last.args.b \in {"4015", "4009"} =>
              \E i \in 1..Len(last.out) :
                  /\ last.out[i].k = "send"
                  /\ last.out[i].id = OldObj
                  /\ last.out[i].d = PlayerBefore.voiceChannel
        /\ PlayerAfter.paused
        /\ Emitted("socketClosed")

\* the last call delivered this client's VOICE_STATE_UPDATE without channel id
\* or without session id to a registered session
VoiceLeave ==
    /\ last.op = "voiceState"
    /\ last.args.a \in {"noChannel", "noSession"}
    /\ OldObj # 0

\* C26: a voice state update lacking a channel id or a session id destroys the
\* session at once: afterwards the session is not connected, not playing, has
\* an empty queue and no current track; and a server update for a session
\* whose link was cleaned up that way pushes no credentials.
C26_LeaveDestroysSession ==
    /\ VoiceLeave =>
         /\ ~PlayerAfter.connected
         /\ ~PlayerAfter.playing
         /\ PlayerAfter.queue = <<>>
         /\ PlayerAfter.current = NoTrack
    /\ (last.op = "voiceServer" /\ OldObj # 0 /\ ~PlayerBefore.linked) =>
         ~Emitted("voice")

\* the session registered for guild g before the last call met the idle
\* conditions: not playing, not paused, empty queue, and its last use (at
\* StartTime) longer ago than the idle threshold
WasIdle(g) ==
    LET p == last.pre.objs[last.pre.players[g]] IN
    /\ ~p.playing /\ ~p.paused /\ p.queue = <<>>
    /\ now - StartTime > IdleTimeout

\* C27: an idle sweep destroys and unregisters every session that is not
\* playing, not paused, has an empty queue and has been inactive longer than
\* the idle threshold, and leaves every other session untouched.
C27_IdleSweep ==
    last.op = "cleanupIdle" =>
        \A g \in Guilds :
            LET o == last.pre.players[g] IN
            o # 0 =>
                IF WasIdle(g)
                THEN players[g] = 0 /\ ~objs[o].connected
                ELSE players[g] = o /\ objs[o] = last.pre.objs[o]

\* the nodes the pool held under the identity key before the last call
HeldUnder(key) ==
    {m \in SeqRange(last.pre.nodeMap) : last.pre.nodes[m].name = key}

\* C28: after destroyNode(identity) for a node present in the pool, the pool
\* contains no node under that identity, the node's channel is torn down and a
\* node-destroy notification has been emitted; destroyNode for an absent
\* identity changes nothing.
C28_DestroyNodeRemoves ==
    last.op = "destroyNode" =>
        IF HeldUnder(last.args.a) # {}
        THEN /\ \A m \in SeqRange(nodeMap) : nodes[m].name # last.args.a
             /\ \A m \in HeldUnder(last.args.a) : nodes[m].ws = "null"
             /\ Emitted("nodeDestroy")
        ELSE NothingChanged /\ last.out = <<>>

\* node n was superseded: another node is in the pool under n's identity key
Superseded(h, n) ==
    /\ n \notin SeqRange(h.nodeMap)
    /\ \E m \in SeqRange(h.nodeMap) : h.nodes[m].name = h.nodes[n].name

\* C29: createNode under an identity key already in the pool supersedes
\* atomically: the pool never holds two nodes under one key, after the call it
\* holds the new node under the key, and a superseded node is destroyed: it
\* holds no channel, has no reconnect pending, and neither opens, dispatches
\* frames nor reconnects afterwards.
C29_CreateNodeSupersedes ==
    /\ \A i, j \in 1..Len(nodeMap) :
          nodes[nodeMap[i]].name = nodes[nodeMap[j]].name => i = j
    /\ (last.op = "createNode" /\ HeldUnder(nodes[last.args.n].name) # {}) =>
          {m \in SeqRange(nodeMap) : nodes[m].name = nodes[last.args.n].name}
             = {last.args.n}
    /\ \A n \in NodeIds :
          Superseded(World, n) =>
              /\ nodes[n].ws = "null"
              /\ ~nodes[n].connected
              /\ nodes[n].timers = {}
    /\ \A n \in NodeIds :
          (Superseded(last.pre, n) /\ last.op \in {"open", "failOpen", "close",
                                                   "retry", "stats"}) =>
              last.args.n # n

\* the Player as it was when the trackEnd resumed by the last call began
AtBegin == Head(PlayerBefore.ending).snap

\* the world of the last call with its Player replaced by p, nothing emitted
WorldWith(p) == [World EXCEPT !.objs[OldObj] = p, !.out = <<>>, !.threw = ""]

\* current track, queue and playing flag of a Player
Outcome(p) == <<p.current, p.queue, p.playing>>

\* between the begin of the resumed trackEnd and its continuation the Player
\* changed exactly as one effective play() changes it
OnePlayDuring ==
    LET q == PlayerPlay(WorldWith(AtBegin), OldObj).objs[OldObj]
    IN q # AtBegin /\ [PlayerBefore EXCEPT !.ending = <<>>] = q

\* trackEnd run to completion from the begin state, then play()
EndThenPlay ==
    LET a == HandleEvent(WorldWith(AtBegin), OldObj, "TrackEndEvent",
                         last.args.b)
    IN PlayerPlay([a EXCEPT !.threw = ""], OldObj).objs[OldObj]

\* play() from the begin state, then trackEnd run to completion
PlayThenEnd ==
    LET b == PlayerPlay(WorldWith(AtBegin), OldObj)
    IN HandleEvent([b EXCEPT !.threw = ""], OldObj, "TrackEndEvent",
                   last.args.b).objs[OldObj]

\* C30: a play() that arrives while a trackEnd of the same session is being
\* handled does not interleave with it: the resulting current track, queue
\* and playing flag equal the result of running the two operations one after
\* the other in some order.
C30_TrackEndSerialized ==
    (last.op = "trackEndResume" /\ OldObj # 0 /\ OnePlayDuring) =>
        Outcome(PlayerAfter) \in {Outcome(EndThenPlay), Outcome(PlayThenEnd)}

\* node n has been destroyed: Node.destroy() took it out of the pool
Destroyed(h, n) == \A m \in SeqRange(h.nodeMap) : h.nodes[m].name # h.nodes[n].name

\* C31: a reconnect retry pending when its node is destroyed is invalidated:
\* a destroyed node has no retry pending, and no retry timer of a destroyed
\* node fires (invoking connect(), emitting the reconnect notification or
\* opening a channel).
C31_RetryInvalidatedByDestroy ==
    /\ \A n \in NodeIds : Destroyed(World, n) => nodes[n].timers = {}
    /\ last.op = "retry" => ~Destroyed(last.pre, last.args.n)

\* C32: handling an engine-pushed event never raises an exception or an
\* unhandled rejection out of the event handler, in any session state,
\* including a trackEnd that exhausts the queue and triggers idle cleanup.
C32_EventsNeverThrow ==
    last.op = "event" => last.threw = ""

\* the last step ran Node.#reconnect on node n: its channel closed, its open
\* failed, or its retry could not construct a channel
Reconnected(n) ==
    /\ last.args.n = n
    /\ \/ last.op \in {"close", "failOpen"}
       \/ last.op = "retry" /\ last.args.a = "throw"

\* C33: a node's reconnect-attempt counter never decreases except by a reset
\* to 0 on a successful open: every other step leaves it unchanged or, when it
\* runs a reconnect of the node, increments it by exactly one.
C33_AttemptsMonotone ==
    \A n \in NodeIds :
        LET before == last.pre.nodes[n].attempted
            after  == nodes[n].attempted
        IN IF last.op = "open" /\ last.args.n = n
           THEN after \in {0, before}
           ELSE after = before + (IF Reconnected(n) THEN 1 ELSE 0)

\* C33 witness: a second consecutive failure took the counter from 1 to 2.
C33_Witness ==
    \E n \in NodeIds :
        /\ Reconnected(n)
        /\ last.pre.nodes[n].attempted = 1
        /\ nodes[n].attempted = 2

C35_TrackLoop ==
    (NormalTrackEnd /\ PlayerBefore.loop = "track") =>
        /\ last.threw = ""
        /\ Emitted("trackRepeat")
        /\ ~Emitted("queueEnd")
        /\ PlayerAfter.current = PlayerBefore.current
        /\ PlayerAfter.playing
        /\ PlayerAfter.position = 0
        /\ PlayerAfter.queue = PlayerBefore.queue
        /\ Len(PatchesSent) = 1
        /\ PatchesSent[1].d = PlayerBefore.current

\* C35 witness: with loop = track, current = A and queue = [B], a trackEnd
\* "finished" left current = A, playing, and queue = [B].
C35_Witness ==
    /\ NormalTrackEnd
    /\ last.args.b = "finished"
    /\ PlayerBefore.loop = "track"
    /\ PlayerBefore.current = "A"
    /\ PlayerBefore.queue = <<"B">>
    /\ PlayerAfter.current = "A"
    /\ PlayerAfter.playing
    /\ PlayerAfter.queue = <<"B">>

\* the number of notifications of kind k the last call emitted
CountEmitted(k) == Len(SelectSeq(last.out, LAMBDA e : e.k = k))

\* the last call delivered a TrackEndEvent that finds nothing to start: the
\* queue is empty and the loop handling re-inserts nothing, because the reason
\* is a load failure or cleanup or because loop is "none"
ExhaustingTrackEnd ==
    /\ last.op = "event"
    /\ last.args.a = "TrackEndEvent"
    /\ OldObj # 0
    /\ PlayerBefore.queue = <<>>
    /\ \/ NormReason(last.args.b) \in {"loadfailed", "cleanup"}
       \/ PlayerBefore.loop = "none"

\* C36: whenever handling a trackEnd event leaves the queue empty with
\* nothing to start, for any end reason, the session ends not playing and the
\* queue-exhausted notification is emitted exactly once for that event.
C36_QueueExhausted ==
    ExhaustingTrackEnd =>
        /\ ~PlayerAfter.playing
        /\ PlayerAfter.queue = <<>>
        /\ CountEmitted("queueEnd") = 1

\* Player.destroy() has run to its end on the Player p: its listeners are
\* removed
WasDestroyed(p) == p.guildId # "" /\ ~p.listening

\* C37: destroyed is terminal for a session: once a session has been
\* destroyed, no later caller operation or engine event makes it connected or
\* playing again.
C37_DestroyedIsTerminal ==
    \A g \in Guilds :
        (players[g] # 0 /\ WasDestroyed(objs[players[g]])) =>
            /\ ~objs[players[g]].connected
            /\ ~objs[players[g]].playing

\* C38: every transmitted voice credential push carries the latest state: the
\* endpoint and token it transmits (the link's voice object as the server
\* update leaves it) are those of the server update just received, also when
\* that update's region equals the region recorded before.
C38_PushCarriesLatest ==
    (VoicePush /\ VoiceSent > 0) =>
        /\ PlayerAfter.endpoint = last.args.a
        /\ PlayerAfter.token = last.args.b

\* C39: a destroyed session is no longer held by the registry: no registry
\* entry refers to a destroyed Player, and createConnection never returns one.
C39_RegistryHoldsNoDestroyed ==
    /\ \A g \in Guilds :
          players[g] # 0 => ~WasDestroyed(objs[players[g]])
    /\ \A i \in 1..Len(last.out) :
          (last.op = "createConnection" /\ last.out[i].k = "return") =>
              ~WasDestroyed(objs[last.out[i].id])

\* C40: in every reachable state a node is marked connected only while its
\* current channel is open: connect() tearing down a channel, a channel
\* close, and destroy all leave the node not connected until the new
\* channel's open event arrives.
C40_ConnectedOnlyWhileOpen ==
    \A n \in NodeIds : nodes[n].connected => nodes[n].ws = "open"

====
